---- MODULE Spec2Model ----
(***************************************************************************)
(* Model of OpenAI/1_basic_chatcompletions_example.ipynb.                  *)
(*                                                                         *)
(* The notebook has two code cells that matter: cell 0f1a2c08 assigns the  *)
(* four module-level settings of the openai library, and cell 1d67d3b6     *)
(* calls openai.ChatCompletion.create inside a try block, prints the       *)
(* content of every returned choice inside the same try block, and prints  *)
(* the exception in the except clause.                                     *)
(*                                                                         *)
(* The keyword arguments messages and n of the call are the parameters     *)
(* the tutorial invites the reader to change; the model draws them from    *)
(* small sets that contain the literal values of the notebook.  The answer *)
(* of the remote service is the environment: RemoteResponses and           *)
(* FailureKinds enumerate what the call can return or raise.               *)
(***************************************************************************)
EXTENDS Integers, Sequences, FiniteSets, TLC

\* ---------------------------------------------------------------- bounds
MaxN == 2          \* largest n (choices requested) that is enumerated
MaxMsgs == 2       \* longest messages list that is enumerated
MaxRuns == 2       \* how many times the completion cell is executed

\* ------------------------------------------------- literals of the notebook
deployment_id == "gpt-35-turbo"
max_tokens == 150
stream == FALSE
api_type_value == "azure"
api_base_value == "https://apis.ai.cosmoconsult.com"
api_version_value == "2023-07-01-preview"
placeholder_key == "<your_api_key>"

\* The key pasted into the configuration cell: the placeholder left as it
\* is, or a key the service accepts.
Keys == {placeholder_key, "pasted-key"}

\* The message objects of the notebook's conversation.
SystemMessage == [role |-> "system", content |-> "You are a helpful assistant."]
UserMessage == [role |-> "user", content |-> "Who is Marie Curie?"]

RECURSIVE SeqsUpTo(_, _)
SeqsUpTo(S, k) ==
    IF k = 0 THEN {<<>>}
    ELSE LET shorter == SeqsUpTo(S, k - 1)
         IN  shorter \cup {Append(s, x) : s \in shorter, x \in S}

\* The values of the messages argument: every list of at most MaxMsgs
\* message objects, the empty list and the notebook's own list included.
MessageLists == SeqsUpTo({SystemMessage, UserMessage}, MaxMsgs)

\* ------------------------------------------------------ the remote service
\* What the call can raise.
FailureKinds ==
    {"TransportError", "AuthError", "InvalidRequestError",
     "RateLimitError", "ServerError"}

\* A returned choice: its message is a dict that carries the key content,
\* or (a choice withheld by the service's content filter) does not.
Contents == {"Marie Curie was a physicist.", "Marie Curie won two Nobel Prizes."}
ChoicesWithContent ==
    {[message |-> [role |-> "assistant", content |-> c]] : c \in Contents}
ChoiceWithoutContent == [message |-> [role |-> "assistant"]]
Choices == ChoicesWithContent \cup {ChoiceWithoutContent}

\* The responses the service can return for a request of k choices.
RemoteResponses(k) ==
    {[bound |-> TRUE, choices |-> cs] :
        cs \in {s \in SeqsUpTo(Choices, k) : Len(s) = k}}

\* The service answers with a response only a request that has a message
\* to answer and a key it accepts.
CanSucceed(req) == req.messages # <<>> /\ req.api_key # placeholder_key

\* --------------------------------------------------------------- the state
VARIABLES
    pc,         \* position in the notebook
    openai,     \* the module-level settings of the openai library
    messages,   \* the messages argument of the current invocation
    n,          \* the n argument of the current invocation
    sent,       \* the requests issued by the current invocation
    outcome,    \* what the call of the current invocation did
    response,   \* the notebook variable response
    i,          \* position of the for loop in response['choices']
    e,          \* the exception being handled, "None" if there is none
    out,        \* the lines printed by the current execution of the cell
    uncaught,   \* an exception left the cell
    runs        \* re-executions of the completion cell so far

vars == <<pc, openai, messages, n, sent, outcome, response, i, e, out,
          uncaught, runs>>

Unset == [api_type |-> "unset", api_key |-> "unset",
          api_base |-> "unset", api_version |-> "unset"]

Unbound == [bound |-> FALSE, choices |-> <<>>]

\* The state after `import openai`: nothing configured, nothing run.
Init ==
    /\ pc = "config"
    /\ openai = Unset
    /\ messages = <<>>
    /\ n = 1
    /\ sent = <<>>
    /\ outcome = "none"
    /\ response = Unbound
    /\ i = 0
    /\ e = "None"
    /\ out = <<>>
    /\ uncaught = FALSE
    /\ runs = 0

\* Cell 0f1a2c08: the four assignments.
ConfigureCell ==
    /\ pc = "config"
    /\ \E key \in Keys :
         openai' = [api_type |-> api_type_value, api_key |-> key,
                    api_base |-> api_base_value,
                    api_version |-> api_version_value]
    /\ pc' = "try"
    /\ UNCHANGED <<messages, n, sent, outcome, response, i, e, out,
                   uncaught, runs>>

\* The request that create sends: the keyword arguments of the call and the
\* module-level settings it reads.
Request(msgs, k) ==
    [deployment_id |-> deployment_id, messages |-> msgs, n |-> k,
     max_tokens |-> max_tokens, stream |-> stream,
     api_type |-> openai.api_type, api_key |-> openai.api_key,
     api_base |-> openai.api_base, api_version |-> openai.api_version]

\* Mutant: the call site sends the request a second time.
CreateCallTwice ==
    /\ pc = "try"
    /\ \E msgs \in MessageLists, k \in 1..MaxN :
         /\ messages' = msgs
         /\ n' = k
         /\ sent' = sent \o <<Request(msgs, k), Request(msgs, k)>>
    /\ pc' = "await"
    /\ UNCHANGED <<openai, outcome, response, i, e, out, uncaught, runs>>

\* Mutant: the call site checks the messages itself and raises
\* InvalidRequestError for an empty list without sending anything.
CreateCallValidated ==
    /\ pc = "try"
    /\ \E msgs \in MessageLists, k \in 1..MaxN :
         /\ messages' = msgs
         /\ n' = k
         /\ IF msgs = <<>>
            THEN /\ sent' = sent
                 /\ outcome' = "InvalidRequestError"
                 /\ e' = "InvalidRequestError"
                 /\ pc' = "except"
            ELSE /\ sent' = Append(sent, Request(msgs, k))
                 /\ pc' = "await"
                 /\ UNCHANGED <<outcome, e>>
    /\ UNCHANGED <<openai, response, i, out, uncaught, runs>>

\* Cell 1d67d3b6, entering the try block: openai.ChatCompletion.create is
\* called with the keyword arguments; nothing is checked before the call.
CreateCall ==
    /\ pc = "try"
    /\ \E msgs \in MessageLists, k \in 1..MaxN :
         /\ messages' = msgs
         /\ n' = k
         /\ sent' = Append(sent, Request(msgs, k))
    /\ pc' = "await"
    /\ UNCHANGED <<openai, outcome, response, i, e, out, uncaught, runs>>

\* create returns: the result is bound to response and the for loop starts.
CreateReturns ==
    /\ pc = "await"
    /\ CanSucceed(sent[Len(sent)])
    /\ \E r \in RemoteResponses(n) : response' = r
    /\ outcome' = "response"
    /\ i' = 1
    /\ pc' = "loop"
    /\ UNCHANGED <<openai, messages, n, sent, e, out, uncaught, runs>>

\* Mutant: a call rejected for its credentials clears the key.
CreateRaisesClearsKey ==
    /\ pc = "await"
    /\ \E f \in FailureKinds :
         /\ outcome' = f
         /\ e' = f
         /\ openai' = IF f = "AuthError"
                      THEN [openai EXCEPT !.api_key = "unset"]
                      ELSE openai
    /\ pc' = "except"
    /\ UNCHANGED <<messages, n, sent, response, i, out, uncaught, runs>>

\* create raises: control leaves the try block, response is not assigned.
CreateRaises ==
    /\ pc = "await"
    /\ \E f \in FailureKinds :
         /\ outcome' = f
         /\ e' = f
    /\ pc' = "except"
    /\ UNCHANGED <<openai, messages, n, sent, response, i, out, uncaught,
                   runs>>

\* The line a print statement writes, tagged with the statement.
ContentLine(c) == [stmt |-> "print(content)", text |-> c]

\* str(e): a KeyError prints the repr of the missing key, a failure of the
\* call prints the message the library attached, named here by its kind.
Description(x) == IF x = "KeyError" THEN "'content'" ELSE x

ErrorLine(x) == [stmt |-> "print(e)", text |-> Description(x)]

\* choice['message']['content'] is defined when the dict has the key.
HasContent(choice) == "content" \in DOMAIN choice.message

\* Mutant: the loop prints the first choice at every iteration.
PrintChoiceFirst ==
    /\ pc = "loop"
    /\ i <= Len(response.choices)
    /\ IF HasContent(response.choices[i])
       THEN /\ out' = Append(out, ContentLine(response.choices[1].message.content))
            /\ i' = i + 1
            /\ UNCHANGED <<pc, e>>
       ELSE /\ e' = "KeyError"
            /\ pc' = "except"
            /\ UNCHANGED <<out, i>>
    /\ UNCHANGED <<openai, messages, n, sent, outcome, response, uncaught,
                   runs>>

\* One iteration of `for choice in response['choices']`: the content is
\* printed, or the subscript raises KeyError inside the try block.
PrintChoice ==
    /\ pc = "loop"
    /\ i <= Len(response.choices)
    /\ IF HasContent(response.choices[i])
       THEN /\ out' = Append(out, ContentLine(response.choices[i].message.content))
            /\ i' = i + 1
            /\ UNCHANGED <<pc, e>>
       ELSE /\ e' = "KeyError"
            /\ pc' = "except"
            /\ UNCHANGED <<out, i>>
    /\ UNCHANGED <<openai, messages, n, sent, outcome, response, uncaught,
                   runs>>

\* The loop is exhausted: the try block ends without an exception.
LoopExit ==
    /\ pc = "loop"
    /\ i > Len(response.choices)
    /\ pc' = "done"
    /\ UNCHANGED <<openai, messages, n, sent, outcome, response, i, e, out,
                   uncaught, runs>>

\* Mutant: the clause names one error class only.
IsExceptionNarrow(x) == x \in {"InvalidRequestError", "KeyError"}

\* `except Exception`: every failure of the call and the KeyError of the
\* loop are subclasses of Exception.
IsException(x) == x \in FailureKinds \cup {"KeyError"}

\* Mutant: the handler tries the call again after a rate-limit failure.
ExceptRetry ==
    /\ pc = "except"
    /\ IF e = "RateLimitError" /\ Len(sent) < 2
       THEN /\ sent' = Append(sent, sent[Len(sent)])
            /\ pc' = "await"
            /\ e' = "None"
            /\ UNCHANGED <<out, uncaught>>
       ELSE /\ out' = Append(out, ErrorLine(e))
            /\ pc' = "done"
            /\ UNCHANGED <<sent, e, uncaught>>
    /\ UNCHANGED <<openai, messages, n, outcome, response, i, runs>>

\* `except Exception as e: print(e)`: a caught exception is printed and the
\* cell ends; anything else leaves the cell.
Except ==
    /\ pc = "except"
    /\ IF IsException(e)
       THEN /\ out' = Append(out, ErrorLine(e))
            /\ UNCHANGED uncaught
       ELSE /\ uncaught' = TRUE
            /\ UNCHANGED out
    /\ pc' = "done"
    /\ UNCHANGED <<openai, messages, n, sent, outcome, response, i, e, runs>>

\* The completion cell is executed again: its output area is cleared and
\* the names the previous execution bound (response) are still bound; the
\* except clause unbound e when it ended.
RunCellAgain ==
    /\ pc = "done"
    /\ runs + 1 < MaxRuns
    /\ runs' = runs + 1
    /\ pc' = "try"
    /\ sent' = <<>>
    /\ outcome' = "none"
    /\ i' = 0
    /\ e' = "None"
    /\ out' = <<>>
    /\ uncaught' = FALSE
    /\ UNCHANGED <<openai, messages, n, response>>

Next ==
    \/ ConfigureCell
    \/ CreateCall
    \/ CreateReturns
    \/ CreateRaises
    \/ PrintChoice
    \/ LoopExit
    \/ Except
    \/ RunCellAgain

Spec == Init /\ [][Next]_vars

TypeOK ==
    /\ pc \in {"config", "try", "await", "loop", "except", "done"}
    /\ messages \in MessageLists
    /\ n \in 1..MaxN
    /\ Len(sent) <= 1
    /\ outcome \in FailureKinds \cup {"none", "response"}
    /\ e \in FailureKinds \cup {"None", "KeyError"}
    /\ runs \in 0..MaxRuns

\* ------------------------------------------------------------- properties
ContentLines(o) == SelectSeq(o, LAMBDA l : l.stmt = "print(content)")
ErrorLines(o) == SelectSeq(o, LAMBDA l : l.stmt = "print(e)")

AllHaveContent(cs) == \A j \in 1..Len(cs) : HasContent(cs[j])

\* The content lines of the first k choices, in the order of the response.
ContentsOf(cs, k) == [j \in 1..k |-> ContentLine(cs[j].message.content)]

Configured(o) ==
    /\ o.api_type = api_type_value
    /\ o.api_key \in Keys
    /\ o.api_base = api_base_value
    /\ o.api_version = api_version_value

\* C1: whatever kind of failure the completion call raises, the except
\* clause catches it, its description is the one line the cell prints, the
\* cell ends and no exception ever leaves it.
C1_FailureCaughtAndPrinted ==
    /\ ~uncaught
    /\ (pc = "done" /\ outcome \in FailureKinds)
         => out = <<ErrorLine(outcome)>>

C1_Witness ==
    /\ pc = "done"
    /\ outcome = "ServerError"
    /\ out = <<ErrorLine("ServerError")>>
    /\ ~uncaught

\* C2: with stream = False an execution of the cell issues exactly one
\* request: none before the call, one from the call on, and still exactly
\* one when the cell has ended, whether the call returned or raised.
C2_ExactlyOneCall ==
    /\ pc \in {"config", "try"} => Len(sent) = 0
    /\ (pc \in {"await", "loop", "except", "done"} /\ ~stream)
         => (Len(sent) = 1 /\ sent[1].stream = FALSE)

C2_Witness ==
    /\ pc = "done"
    /\ outcome = "RateLimitError"
    /\ Len(sent) = 1
    /\ sent[1].messages = <<SystemMessage, UserMessage>>

\* C4 as stated: an execution with an empty messages list ends with
\* InvalidRequestError printed and without any request having been issued.
C4_EmptyMessagesNoCall ==
    (pc \in {"await", "except", "done"} /\ messages = <<>>)
        => /\ Len(sent) = 0
           /\ pc = "done" => out = <<ErrorLine("InvalidRequestError")>>

\* C4 amended: an empty messages list is not checked at the call site: the
\* execution issues its one request, carrying the empty list, and an
\* InvalidRequestError raised by the call is caught and printed.
C4_EmptyMessagesStillSent ==
    (pc \in {"await", "except", "done"} /\ messages = <<>>)
        => /\ Len(sent) = 1
           /\ sent[1].messages = <<>>
           /\ (pc = "done" /\ outcome = "InvalidRequestError")
                => out = <<ErrorLine("InvalidRequestError")>>

C4_Witness ==
    /\ pc = "done"
    /\ messages = <<>>
    /\ outcome = "InvalidRequestError"
    /\ Len(sent) = 1
    /\ out = <<ErrorLine("InvalidRequestError")>>

\* C5: when the call returned a response whose choices all carry content,
\* the loop has printed, at every iteration, exactly the contents of the
\* choices before its position, and the finished cell shows the content of
\* every choice, one line each, in the order of the response.
C5_PrintedInResponseOrder ==
    (outcome = "response" /\ AllHaveContent(response.choices))
        => /\ pc = "loop" => out = ContentsOf(response.choices, i - 1)
           /\ pc = "done" =>
                out = ContentsOf(response.choices, Len(response.choices))

C5_Witness ==
    /\ pc = "done"
    /\ outcome = "response"
    /\ AllHaveContent(response.choices)
    /\ Len(out) = 2
    /\ out[1] # out[2]

\* C6: once the call of an execution has raised, no step of that execution
\* issues a request or prints a choice content; the only steps left are
\* the except clause and the end of the cell.
C6_FailureIsTerminal ==
    [][(outcome \in FailureKinds /\ runs' = runs)
         => /\ sent' = sent
            /\ ContentLines(out') = ContentLines(out)
            /\ pc' \in {"except", "done"}]_vars

C6_Witness ==
    /\ pc = "done"
    /\ outcome = "TransportError"
    /\ Len(sent) = 1
    /\ ContentLines(out) = <<>>
    /\ Len(out) = 1

====
